---- MODULE Spec2Model ----
(***************************************************************************)
(* A model of neurons/validator.py: the weight accumulator (set_weights),  *)
(* the round loop (query_synapse), the task supply                         *)
(* (update_counters_and_get_new_list, get_list, call_openai) and the peer  *)
(* dispatcher (query_miner and the validators' start_query).               *)
(*                                                                         *)
(* Scores are real numbers in the program (torch float tensors).  Here a   *)
(* score is an integer number of 1/Unit: Unit is chosen so that every      *)
(* division the modelled runs perform (by 5 at a commit, by 10 in the      *)
(* moving average) is exact.  Floating-point rounding is not modelled.     *)
(***************************************************************************)
EXTENDS Integers, Sequences, FiniteSets, TLC

(* ------------------------------ bounds -------------------------------- *)

\* Number of registry entries (len(metagraph.hotkeys)) in the modelled runs.
NumPeers == 3

\* Largest number of set_weights calls in a modelled run.
MaxCommits == 3

\* Largest number of iterations of query_synapse's loop in a modelled run.
MaxRounds == 10

\* Number of tasks that call update_counters_and_get_new_list.
NumTasks == 2

\* Largest number of take calls started in a modelled run.
MaxTakes == 3

\* Longest queue in the state loaded at startup.
MaxQueue == 2

\* Longest list the oracle returns.
MaxBatch == 2

\* Longest list of texts call_openai_embeddings is called with.
MaxTexts == 4

(* ------------------------- numbers and vectors ------------------------ *)

\* Python's None where a vector is expected (no tensor has length 0 here).
None == <<>>

RECURSIVE Pow10(_)
Pow10(n) == IF n = 0 THEN 1 ELSE 10 * Pow10(n - 1)

\* The score 1.0, as a number of 1/Unit.
Unit == 2 * Pow10(MaxCommits)

Half == Unit \div 2

\* Scores a round can give one peer: 0.0, 0.5, 1.0.
Levels == {0, Half, Unit}

\* metagraph.uids: 0 .. n-1.
Uids == 0 .. (NumPeers - 1)

\* torch.zeros(n)
Zeros(n) == [u \in 0 .. (n - 1) |-> 0]

VecLen(v) == Cardinality(DOMAIN v)

\* Score vectors handed to set_weights in the runs of SpecWeights: every
\* assignment of Levels to the first three uids, repeated with period 3.
ScoreVectors ==
    {v \in [Uids -> Levels] : \A u \in Uids : u >= 3 => v[u] = v[u - 3]}

(* ----------------------------- state ---------------------------------- *)

VARIABLES
    moving_average_scores,  \* the global of line 34: None or a vector
    ledger,                 \* weights of the last subtensor.set_weights call that succeeded, or None
    sw_hist,                \* the score vectors set_weights was called with, in order
    sw_status,              \* how the last set_weights call ended: "none", "ok", "raised"
    state,                  \* the global of line 35: state[category][item_type], a list or None
    lock_holder,            \* list_update_lock: the task holding it, 0 when free
    lock_waiters,           \* list_update_lock: the tasks waiting for it, first come first
    task,                   \* each task's position in update_counters_and_get_new_list
    takes,                  \* number of take calls started so far
    log,                    \* the take calls that returned, in order, with what they returned
    fetches,                \* per list type, the number of get_list calls made for it
    entered,                \* the take call that last passed the lock (n counts them)
    last_get_list,          \* the last get_list call of SpecGetList: the oracle's script and what was returned
    init_state,             \* the state loaded at startup
    defaults,               \* per list type, the built-in list object: its items, and whether it is the queue
    pc,                     \* query_synapse: "top" (line 549), "score" (line 563), "merge" (line 572)
    steps_passed,           \* query_synapse's round counter (line 546)
    total_scores,           \* query_synapse's running sum (line 547)
    available_uids,         \* the uids get_available_uids returned in this round
    scores,                 \* the score vector of this round (lines 552, 563)
    scorer_bound,           \* whether the name get_and_score_embeddings is bound when line 563 runs
    rounds,                 \* number of loop iterations started
    window,                 \* the rounds merged since the last set_weights call: their number and sum
    commit_log,             \* for each set_weights call of the loop, the window it closed
    last_round,             \* how the last loop iteration ended
    hotkeys,                \* the registry: the number of its entries, len(metagraph.hotkeys) after a sync
    dispatch,               \* a validator's start_query call: its position, locals and result
    scoring,                \* a score_responses call: its arguments, what went wrong, its outcome
    discovery,              \* a get_available_uids call: the probes and what was returned
    embedding               \* a call_openai_embeddings call: its batches, those pending, what it returned

wvars == <<moving_average_scores, ledger, sw_hist, sw_status>>

svars == <<state, lock_holder, lock_waiters, task, takes, log, fetches, entered,
           last_get_list, init_state, defaults>>

lvars == <<pc, steps_passed, total_scores, available_uids, scores, scorer_bound,
           rounds, window, commit_log, last_round, hotkeys>>

vars == <<moving_average_scores, ledger, sw_hist, sw_status,
          state, lock_holder, lock_waiters, task, takes, log, fetches, entered,
          last_get_list, init_state, defaults,
          dispatch, scoring, discovery, embedding,
          pc, steps_passed, total_scores, available_uids, scores, scorer_bound,
          rounds, window, commit_log, last_round, hotkeys>>

(* --------------------------- set_weights ------------------------------ *)

\* alpha = .3 (line 245), in tenths.
Alpha == 3

\* alpha * scores + (1 - alpha) * moving_average_scores, elementwise.
EmaStep(vec, avg) ==
    [u \in DOMAIN vec |-> (Alpha * vec[u] + (10 - Alpha) * avg[u]) \div 10]

\* Lines 246-247: the first call starts the average from the scores.
MovingBaseWrong(vec, avg) == IF avg = None THEN Zeros(VecLen(vec)) ELSE avg
MovingBase(vec, avg) == IF avg = None THEN vec ELSE avg

\* set_weights(scores, ...): lines 244-253.  ledger_ok is whether
\* subtensor.set_weights returns (TRUE) or raises (FALSE).
SetWeights(vec, ledger_ok) ==
    LET base == MovingBase(vec, moving_average_scores)
        new  == EmaStep(vec, base)
    IN  /\ moving_average_scores' = new
        /\ sw_hist' = Append(sw_hist, vec)
        /\ IF ledger_ok
             THEN /\ ledger' = new
                  /\ sw_status' = "ok"
             ELSE /\ ledger' = ledger
                  /\ sw_status' = "raised"

\* No set_weights call has been made.
NoWeights ==
    /\ moving_average_scores = None
    /\ ledger = None
    /\ sw_hist = <<>>
    /\ sw_status = "none"

(* ------------------ the task supply: lines 125-220 -------------------- *)

Categories == {"text", "images"}

Kinds == {"themes", "questions"}

Keys == Categories \X Kinds

\* Items are positive numbers; a queue is a sequence of items, or None.
\* None where a list is expected.
NoneList == <<0>>

\* Python's truth value of a list or None ("if items", "if not items").
Truthy(items) == items # NoneList /\ items # <<>>

\* The items of a queue, None read as no item.
QueueItems(q) == IF q = NoneList THEN <<>> ELSE q

Front(q) == SubSeq(q, 1, Len(q) - 1)

\* Lists the oracle's answer can hold: for each length 1..MaxBatch, the list
\* 1, 2, .., n of distinct items and the list that repeats item 1.
Batches ==
    {[i \in 1 .. n |-> i] : n \in 1 .. MaxBatch}
    \cup {[i \in 1 .. n |-> 1] : n \in 1 .. MaxBatch}

\* template.question_themes, template.image_themes, template.text_questions,
\* template.image_questions: the built-in list of each list type.
DefaultList(c, k) ==
    IF c = "text" THEN (IF k = "themes" THEN <<10, 11>> ELSE <<12, 13>>)
                  ELSE (IF k = "themes" THEN <<14, 15>> ELSE <<16, 17>>)

\* What one client.chat.completions.create call does: it raises, or answers
\* with a content that is None ("none"), holds no list ("junk"), makes
\* extract_python_list raise ("bad"), or holds the list `list`.
ApiOutcomes ==
    {[kind |-> x, list |-> <<>>] : x \in {"raise", "none", "junk", "bad"}}
    \cup {[kind |-> "list", list |-> b] : b \in Batches}

NoAnswer == [kind |-> "none", list |-> <<>>]

\* range(2) of line 84 and max_retries of line 155.
CallOpenaiTries == 2
max_retries == 3

\* call_openai (lines 83-101) from its attempt-th client call on: outs[i] is
\* what the i-th client call does.  An answer is returned at once, an
\* exception leads to the next call, and None is returned after the last.
RECURSIVE call_openai_from(_, _)
call_openai_from(outs, attempt) ==
    IF attempt > CallOpenaiTries THEN [answer |-> NoAnswer, calls |-> attempt - 1]
    ELSE IF outs[attempt].kind # "raise"
      THEN [answer |-> outs[attempt], calls |-> attempt]
      ELSE call_openai_from(outs, attempt + 1)

call_openai(outs) == call_openai_from(outs, 1)

\* Lines 160-162: answer.replace(..) if answer else "", then
\* template.utils.extract_python_list(answer).  <<>> stands for every falsy
\* result; "raised" tells that the extraction raised (caught at line 167).
extract_python_list(answer) ==
    [list   |-> IF answer.kind = "list" THEN answer.list ELSE <<>>,
     raised |-> answer.kind = "bad"]

\* Lines 156-172: the number of retries after which the default list is used.
RetryLimitWrong(lim) == lim - 1
RetryLimit(lim) == lim

\* get_list(list_type, theme) for a valid list type (lines 151-172), from
\* its retry-th retry on: script[r] lists what the client calls of retry r
\* do, and `default` is what the built-in list of the list type holds.
\* The result holds the returned list, the number of call_openai calls and
\* of client calls made, and the lists extracted by the retries.
RECURSIVE get_list_from(_, _, _, _)
get_list_from(default, script, retry, acc) ==
    IF retry > RetryLimit(max_retries)
      THEN [acc EXCEPT !.result = default, !.default = TRUE]
      ELSE LET r    == call_openai(script[retry])
               ext  == extract_python_list(r.answer)
               acc1 == [acc EXCEPT !.attempts = @ + 1,
                                   !.calls = @ + r.calls,
                                   !.extracted = Append(@, ext.list)]
           IN  IF ext.list # <<>>
                 THEN [acc1 EXCEPT !.result = ext.list]
                 ELSE get_list_from(default, script, retry + 1, acc1)

get_list(default, script) ==
    get_list_from(default, script, 1,
                  [result |-> <<>>, default |-> FALSE, attempts |-> 0, calls |-> 0,
                   extracted |-> <<>>])

\* What a get_list call hands to its caller: the list, and whether it is
\* the built-in list object.
Returned(r) == [list |-> r.result, default |-> r.default]

\* What the client calls of one retry do: the second call is made only when
\* the first one raises.
ScriptRows ==
    {[i \in 1 .. CallOpenaiTries |-> IF i = 1 THEN o ELSE NoAnswer] :
        o \in {x \in ApiOutcomes : x.kind # "raise"}}
    \cup {[i \in 1 .. CallOpenaiTries |-> IF i = 1 THEN [kind |-> "raise", list |-> <<>>] ELSE o] :
        o \in ApiOutcomes}

\* What the oracle does during one get_list call: for each retry, what each
\* client call of that retry does.
Scripts == [1 .. max_retries -> ScriptRows]

\* The scripts in which no client call raises and every answer is None or a
\* list: one script for each sequence of extracted lists.
AnswerScripts ==
    [1 .. max_retries ->
        {[i \in 1 .. CallOpenaiTries |-> IF i = 1 THEN o ELSE NoAnswer] :
            o \in {x \in ApiOutcomes : x.kind \in {"none", "list"}}}]

\* A task: pc is "idle", "wait" (for the lock) or "fetch" (suspended in a
\* get_list call made for the theme queue, stage "theme", or for its own
\* queue, stage "main").  batch is the list fetched for its own queue,
\* theme the theme get_current_theme returned (0 when it was not called), and
\* overlap tells that another take call was under way when this one started.
IdleTask ==
    [pc |-> "idle", cat |-> "text", kind |-> "themes", theme_given |-> FALSE,
     stage |-> "main", batch |-> <<>>, theme |-> 0, overlap |-> FALSE]

\* The supply's variables as one record, so that the steps below are
\* functions from record to record.
World ==
    [state |-> state, lock_holder |-> lock_holder, lock_waiters |-> lock_waiters,
     task |-> task, takes |-> takes, log |-> log, fetches |-> fetches,
     entered |-> entered, defaults |-> defaults]

SetSupply(w) ==
    /\ state' = w.state
    /\ lock_holder' = w.lock_holder
    /\ lock_waiters' = w.lock_waiters
    /\ task' = w.task
    /\ takes' = w.takes
    /\ log' = w.log
    /\ fetches' = w.fetches
    /\ entered' = w.entered
    /\ defaults' = w.defaults
    /\ init_state' = init_state

NoGetList == [cat |-> "text", kind |-> "themes", script |-> <<>>, ret |-> <<>>]

\* Line 209: item = items.pop() if items else None.  Pops the last element.
PopIndexWrong(items) == 1
PopIndex(items) == Len(items)

\* Lines 209-213, with the release of the lock at the end of "async with":
\* pop the item, store None for a queue left empty, return the item.  A
\* queue that is the built-in list object (get_list returned `default`,
\* line 172) shortens that object with it.
FinishTake(w, t, refilled) ==
    LET c     == w.task[t].cat
        k     == w.task[t].kind
        items == w.state[c][k]
        i     == PopIndex(items)
        item  == IF Truthy(items) THEN items[i] ELSE 0
        rest  == IF Truthy(items)
                   THEN SubSeq(items, 1, i - 1) \o SubSeq(items, i + 1, Len(items))
                   ELSE items
        left  == IF Truthy(rest) THEN rest ELSE NoneList
        alias == w.defaults[<<c, k>>].queued
    IN  [w EXCEPT
           !.state[c][k] = left,
           !.defaults[<<c, k>>] = [list   |-> IF alias THEN rest ELSE @.list,
                                   queued |-> alias /\ Truthy(rest)],
           !.log = Append(@, [cat |-> c, kind |-> k, ret |-> item,
                              refilled |-> refilled, batch |-> w.task[t].batch,
                              overlap |-> w.task[t].overlap, exc |-> ""]),
           !.task[t] = IdleTask,
           !.lock_holder = IF w.lock_waiters = <<>> THEN 0 ELSE Head(w.lock_waiters),
           !.lock_waiters = IF w.lock_waiters = <<>> THEN <<>> ELSE Tail(w.lock_waiters)]

\* get_list(list_type, theme) is called and the task is suspended in it
\* (lines 179, 186).
StartGetList(w, t, stage, k) ==
    LET c == w.task[t].cat
    IN  [w EXCEPT
           !.fetches[<<c, k>>] = @ + 1,
           !.task[t].pc = "fetch",
           !.task[t].stage = stage]

\* Line 193: themes.pop().  The theme queue loses its last element, and so
\* does the built-in list when it is the queue.
PopTheme(w, t) ==
    LET c      == w.task[t].cat
        themes == w.state[c]["themes"]
        alias  == w.defaults[<<c, "themes">>].queued
    IN  [w EXCEPT
           !.state[c]["themes"] = Front(themes),
           !.defaults[<<c, "themes">>].list = IF alias THEN Front(themes) ELSE @,
           !.task[t].theme = themes[Len(themes)]]

\* An exception leaves update_counters_and_get_new_list: "async with"
\* releases the lock and the caller gets the exception.
RaiseInTake(w, t, exc) ==
    [w EXCEPT
       !.log = Append(@, [cat |-> w.task[t].cat, kind |-> w.task[t].kind, ret |-> 0,
                          refilled |-> FALSE, batch |-> <<>>,
                          overlap |-> w.task[t].overlap, exc |-> exc]),
       !.task[t] = IdleTask,
       !.lock_holder = IF w.lock_waiters = <<>> THEN 0 ELSE Head(w.lock_waiters),
       !.lock_waiters = IF w.lock_waiters = <<>> THEN <<>> ELSE Tail(w.lock_waiters)]

\* get_items (lines 177-186) with get_current_theme (lines 188-193), up to the
\* first get_list they call.
GetItems(w, t) ==
    LET c      == w.task[t].cat
        k      == w.task[t].kind
        themes == w.state[c]["themes"]
    IN  IF k = "themes" THEN StartGetList(w, t, "main", "themes")
        ELSE IF w.task[t].theme_given THEN StartGetList(w, t, "main", "questions")
        ELSE IF Truthy(themes)
          THEN StartGetList(PopTheme(w, t), t, "main", "questions")
          ELSE StartGetList(w, t, "theme", "themes")

\* Line 204: "if not items" decides whether a new list is fetched.
NeedsRefillWrong(items) == TRUE
NeedsRefill(items) == ~Truthy(items)

\* The body of "async with list_update_lock" up to its first suspension
\* (lines 198-205): task t holds the lock.
EnterLock(w, t) ==
    LET c  == w.task[t].cat
        k  == w.task[t].kind
        w1 == [w EXCEPT !.entered = [n |-> @.n + 1, task |-> t, cat |-> c, kind |-> k]]
    IN  IF NeedsRefill(w.state[c][k])
          THEN GetItems(w1, t)
          ELSE FinishTake(w1, t, FALSE)

\* Line 197: "async with list_update_lock" lets the caller in when the lock
\* is free.
LockFreeWrong(w) == TRUE
LockFree(w) == w.lock_holder = 0

\* update_counters_and_get_new_list(c, k, theme) is called by task t
\* (lines 174-197): it takes the lock when it is free, and waits otherwise.
StartTake(w, t, c, k, tg) ==
    LET w1 == [w EXCEPT
                 !.takes = @ + 1,
                 !.task[t] = [IdleTask EXCEPT
                                !.cat = c, !.kind = k, !.theme_given = tg,
                                !.overlap = \E u \in DOMAIN w.task : w.task[u].pc # "idle"]]
    IN  IF LockFree(w)
          THEN EnterLock([w1 EXCEPT !.lock_holder = t], t)
          ELSE [w1 EXCEPT !.task[t].pc = "wait",
                          !.lock_waiters = Append(@, t)]

\* get_list returns r.list, an extracted list (line 164) or the built-in
\* list object (line 172, r.default), to get_current_theme (line 191: the
\* list becomes the theme queue, its last element the theme, and the
\* question list is fetched next; with no theme, line 185 raises ValueError)
\* or to line 205 (the list becomes the queue).
GetListReturn(w, t, r) ==
    LET c  == w.task[t].cat
        k  == IF w.task[t].stage = "theme" THEN "themes" ELSE w.task[t].kind
        w1 == [w EXCEPT !.state[c][k] = r.list,
                        !.defaults[<<c, k>>].queued = r.default]
    IN  IF w.task[t].stage = "theme"
          THEN IF Truthy(r.list)
                 THEN StartGetList(PopTheme(w1, t), t, "main", "questions")
                 ELSE RaiseInTake(w1, t, "ValueError")
          ELSE FinishTake([w1 EXCEPT !.task[t].batch = r.list], t, TRUE)

(* ------------------- query_synapse: lines 545-591 --------------------- *)

\* Line 577: steps_passed % 5 == 4.
CommitEvery == 5
CommitAt == 4

\* a += b on tensors of one dimension (line 572): b has a's length, or
\* length 1 and is added to every entry; any other shape raises RuntimeError.
SameShape(a, b) == VecLen(b) = VecLen(a) \/ VecLen(b) = 1

VecAdd(a, b) == [u \in DOMAIN a |-> a[u] + (IF VecLen(b) = VecLen(a) THEN b[u] ELSE b[0])]

VecDiv(a, d) == [u \in DOMAIN a |-> a[u] \div d]

\* How an iteration ended: outcome is "backoff" (empty reachable set),
\* "completed" (line 586 reached) or "abandoned" (an exception, exc);
\* pause is the sleep taken before the next iteration; failed_call tells that
\* a peer, oracle or ledger call failed; merged and counted tell that line
\* 572 and line 585 ran.
NoRound ==
    [outcome |-> "none", exc |-> "", pause |-> 0, failed_call |-> FALSE,
     merged |-> FALSE, counted |-> FALSE, only_failures |-> FALSE]

\* Lines 546-547: the loop's variables before the first iteration.
LoopStart(bound) ==
    /\ pc = "top"
    /\ steps_passed = 0
    /\ total_scores = Zeros(NumPeers)
    /\ available_uids = {}
    /\ scores = Zeros(NumPeers)
    /\ scorer_bound = bound
    /\ rounds = 0
    /\ window = [n |-> 0, sum |-> Zeros(NumPeers)]
    /\ commit_log = <<>>
    /\ last_round = NoRound
    /\ hotkeys = NumPeers

\* The exceptions an iteration raises in the model: the NameError of line
\* 563, an exception of the scorer, an exception of the ledger write.
\* and the RuntimeError of a tensor operation on two shapes.
RoundExceptions == {"NameError", "scorer", "ledger", "RuntimeError"}

\* Lines 588-591: "except RuntimeError" and "except Exception" catch every
\* exception that derives from Exception, as all those of a round do.
CaughtWrong(exc) == exc = "RuntimeError"
Caught(exc) == exc \in RoundExceptions

\* The except clauses of lines 588-591: the exception is logged and the loop
\* goes to its next iteration at once.  An exception they do not catch
\* leaves query_synapse.  only_failures tells that no iteration so far
\* ended otherwise.
Abandon(exc, failed_call, merged) ==
    /\ pc' = IF Caught(exc) THEN "top" ELSE "escaped"
    /\ last_round' = [outcome |-> "abandoned", exc |-> exc, pause |-> 0,
                      failed_call |-> failed_call, merged |-> merged,
                      counted |-> FALSE,
                      only_failures |-> \/ last_round.outcome = "none"
                                        \/ last_round.only_failures]

\* Line 586 is reached: the iteration ends with time.sleep(100).
Completed ==
    /\ pc' = "top"
    /\ last_round' = [outcome |-> "completed", exc |-> "", pause |-> 100,
                      failed_call |-> FALSE, merged |-> TRUE, counted |-> TRUE,
                      only_failures |-> FALSE]

\* The registry sizes of the modelled runs.
RegistrySizes == {NumPeers, NumPeers + 1}

\* The registry gains or loses an entry while the loop is between two
\* iterations; the loop learns of it at its next sync (line 551).
RegistryChanges ==
    /\ pc = "top"
    /\ rounds < MaxRounds
    /\ \E n \in RegistrySizes \ {hotkeys} : hotkeys' = n
    /\ UNCHANGED <<pc, steps_passed, total_scores, available_uids, scores, scorer_bound,
                   rounds, window, commit_log, last_round>>
    /\ UNCHANGED <<wvars, svars, dispatch, scoring, discovery, embedding>>

\* Reachable sets get_available_uids returns in the modelled runs.
AvailableSets == {{}, {0}, DOMAIN Zeros(hotkeys)}

\* Line 559: "if not available_uids".
NoUidsWrong(avail) == FALSE
NoUids(avail) == avail = {}

\* Lines 549-561: the metagraph is read, the scores zeroed and the reachable
\* uids collected; an empty set sleeps 5 and restarts the iteration.
Discover ==
    /\ pc = "top"
    /\ rounds < MaxRounds
    /\ rounds' = rounds + 1
    /\ scores' = Zeros(hotkeys)
    /\ \E avail \in AvailableSets :
          /\ available_uids' = avail
          /\ IF NoUids(avail)
               THEN /\ pc' = "top"
                    /\ last_round' = [NoRound EXCEPT !.outcome = "backoff", !.pause = 5]
               ELSE /\ pc' = "score"
                    /\ last_round' = last_round
    /\ UNCHANGED <<steps_passed, total_scores, scorer_bound, window, commit_log, hotkeys>>
    /\ UNCHANGED <<wvars, svars, dispatch, scoring, discovery, embedding>>

\* The score vectors get_and_score_embeddings can return for a reachable
\* set: one level for every reachable uid, 0 for the others.
RoundVectors(avail) ==
    {[u \in DOMAIN Zeros(hotkeys) |-> IF u \in avail THEN l ELSE 0] : l \in Levels}

\* Line 563.  validator.py defines no get_and_score_embeddings: with the
\* name unbound the call raises NameError, caught at line 590.  With the
\* name bound, the function scores the reachable uids of the round and
\* returns the score vector, or raises.
Score ==
    /\ pc = "score"
    /\ \/ /\ ~scorer_bound
          /\ Abandon("NameError", FALSE, FALSE)
          /\ scores' = scores
       \/ /\ scorer_bound
          /\ \E v \in RoundVectors(available_uids) : scores' = v
          /\ pc' = "merge"
          /\ last_round' = last_round
       \/ /\ scorer_bound
          /\ Abandon("scorer", TRUE, FALSE)
          /\ scores' = scores
    /\ UNCHANGED <<steps_passed, total_scores, available_uids, scorer_bound, rounds,
                   window, commit_log, hotkeys>>
    /\ UNCHANGED <<wvars, svars, dispatch, scoring, discovery, embedding>>

\* Line 585 after a commit: steps_passed was set to 0 at line 581.
StepsAfterCommit == 0 + 1

\* Line 579: avg_scores = total_scores / (steps_passed + 1).
AvgScores(total, steps) == VecDiv(total, steps + 1)

\* Lines 572-586: the round's scores are added to the running sum; when
\* steps_passed % 5 == 4 the average is handed to set_weights and the sum is
\* zeroed; the counter is incremented and the loop sleeps 100.  An exception
\* of subtensor.set_weights leaves through line 590, the RuntimeError of
\* line 572 on two shapes through line 588.  (The average handed to
\* set_weights has the shape of the moving average: both have the shape the
\* sum had at the last commit.)
MergeAndCommit ==
    /\ pc = "merge"
    /\ IF ~SameShape(total_scores, scores)
         THEN /\ Abandon("RuntimeError", FALSE, FALSE)
              /\ UNCHANGED <<wvars, total_scores, steps_passed, window, commit_log>>
         ELSE LET total == VecAdd(total_scores, scores)
                  win   == [n |-> window.n + 1, sum |-> VecAdd(window.sum, scores)]
              IN  IF steps_passed % CommitEvery = CommitAt
                    THEN /\ commit_log' = Append(commit_log, win)
                         /\ window' = [n |-> 0, sum |-> Zeros(hotkeys)]
                         /\ \E ledger_ok \in BOOLEAN :
                               /\ SetWeights(AvgScores(total, steps_passed), ledger_ok)
                               /\ IF ledger_ok
                                    THEN /\ total_scores' = Zeros(hotkeys)
                                         /\ steps_passed' = StepsAfterCommit
                                         /\ Completed
                                    ELSE /\ total_scores' = total
                                         /\ steps_passed' = 0
                                         /\ Abandon("ledger", TRUE, TRUE)
                    ELSE /\ total_scores' = total
                         /\ steps_passed' = steps_passed + 1
                         /\ window' = win
                         /\ Completed
                         /\ UNCHANGED <<wvars, commit_log>>
    /\ UNCHANGED <<available_uids, scores, scorer_bound, rounds, hotkeys>>
    /\ UNCHANGED <<svars, dispatch, scoring, discovery, embedding>>

(* ------- dispatch: query_miner and start_query, lines 256-499 --------- *)

\* How the program was started: as a script (the __main__ block of lines
\* 604-611 ran) or imported with main() called, and with wandb on or off
\* (config.wandb_on, line 54).
Runs == [as_script : BOOLEAN, wandb_on : BOOLEAN]

\* The names bound in the module's namespace while the loop runs, however
\* the program was started: the imports of lines 1-24, the assignments of
\* lines 29-35 and 595, and the functions and classes the module defines.
BoundInEveryRun ==
    {"os", "re", "json", "math", "time", "torch", "wandb", "random", "string",
     "asyncio", "template", "requests", "argparse", "datetime", "traceback",
     "bt", "concurrent", "Image", "BytesIO", "AsyncOpenAI", "List", "Optional",
     "load_dataset", "StreamPrompting", "IsAlive", "ImageResponse", "Embeddings",
     "client", "list_update_lock", "moving_average_scores", "state", "config",
     "get_config", "init_wandb", "initialize_components",
     "check_validator_registration", "call_openai", "call_openai_embeddings",
     "get_list", "update_counters_and_get_new_list", "get_question",
     "check_uid", "get_available_uids", "set_weights", "BaseValidator",
     "ImageValidator", "TextValidator", "EmbeddingsValidator", "query_synapse",
     "main"}

\* The names bound in the module's namespace while the loop runs: wandb_run
\* is assigned by init_wandb when wandb is on (lines 54, 65), loop by the
\* __main__ block (line 605).
ModuleNames(run) ==
    BoundInEveryRun
    \cup (IF run.wandb_on THEN {"wandb_run"} ELSE {})
    \cup (IF run.as_script THEN {"loop"} ELSE {})

\* The value a module-level name stands for; the objects are not told apart.
ModuleGlobals(run) == [n \in ModuleNames(run) |-> "object"]

\* The parameters and local variables of query_miner (lines 265-289).
QueryMinerLocals ==
    {"self", "axon", "uid", "syn", "syn_type", "responses", "streaming", "resp",
     "chunk", "e"}

\* Reading a name that is neither a local of the function nor bound in the
\* module (nor a builtin: none of the names read here is) raises NameError.
Unresolved(name, locals, run) == name \notin (locals \cup ModuleNames(run))

\* What a peer does with a request: it answers, lets the deadline pass, or
\* the transport fails.
PeerKinds == {"answer", "timeout", "error"}

\* The response of peer uid to a request: a non-empty value of its own.
PeerResponse(uid) == <<uid + 1>>

\* A chunk of a text stream: a list of strings (items) or another object.
ListChunk(items) == [is_list |-> TRUE, items |-> items]
OtherChunk == [is_list |-> FALSE, items |-> <<>>]

\* The streams the dendrite yields for a text request answered by peer uid:
\* a first stream that repeats a chunk and carries an object that is no
\* list, and a second stream.  Strings are numbers.
PeerStreams(uid) ==
    <<<<ListChunk(<<uid + 1>>), ListChunk(<<uid + 1>>), OtherChunk,
        ListChunk(<<uid + 2>>)>>,
      <<ListChunk(<<uid + 3>>)>>>>

\* Lines 277-281: responses += chunk[0] for every chunk that is a list, in
\* the order the chunks arrive.
RECURSIVE TextOfStream(_)
TextOfStream(chunks) ==
    IF chunks = <<>> THEN <<>>
    ELSE (IF Head(chunks).is_list THEN <<Head(chunks).items[1]>> ELSE <<>>)
             \o TextOfStream(Tail(chunks))

\* Lines 274-282: responses = "" and the loop over the streams, left by the
\* break of line 282 after the first one.
StreamedText(streams) ==
    IF streams = <<>> THEN <<>> ELSE TextOfStream(streams[1])

\* The three validators: lines 304-306, 393-395, 463-465, and the category
\* their start_query passes to get_question (lines 325, 410).
Validators ==
    {[name |-> "ImageValidator", query_type |-> "images", timeout |-> 35,
      category |-> "images"],
     [name |-> "TextValidator", query_type |-> "text", timeout |-> 24,
      category |-> "text"],
     [name |-> "EmbeddingsValidator", query_type |-> "embeddings", timeout |-> 15,
      category |-> "none"]}

\* query_miner(axon, uid, syn, syn_type), lines 265-289, called for a peer
\* that behaves as `peer`: the tuple it returns (uid, responses), the requests
\* it sent to the peer and the exception its except clause caught, in a
\* program started as `run`.
\* Line 267 formats the name `timeout` into its log message before anything
\* is sent, inside the try.
query_miner(uid, syn_type, peer, run) ==
    LET failed(e, sent) ==
            [uid |-> uid, responses |-> None, sent |-> sent, exc |-> e]
        answered(sent) ==
            [uid |-> uid, responses |-> PeerResponse(uid), sent |-> sent, exc |-> ""]
    IN  IF Unresolved("timeout", QueryMinerLocals, run)
          THEN failed("NameError", <<>>)
        ELSE IF syn_type = "image" \/ syn_type = "embeddings"
          THEN LET req == [to |-> uid, streaming |-> FALSE,
                           timeout |-> ModuleGlobals(run)["timeout"]]
               IN  IF peer = "answer" THEN answered(<<req>>)
                                      ELSE failed(peer, <<req>>)
        ELSE IF syn_type = "text"
          THEN LET req == [to |-> uid, streaming |-> TRUE, timeout |-> 24]
               IN  IF peer = "answer"
                     THEN [uid |-> uid, responses |-> StreamedText(PeerStreams(uid)),
                           sent |-> <<req>>, exc |-> ""]
                     ELSE failed(peer, <<req>>)
        ELSE \* line 285 reads `responses`, which no branch assigned
             failed("UnboundLocalError", <<>>)

\* A start_query call that has not been made.
NoDispatch ==
    [pc |-> "idle", validator |-> "none", query_type |-> "none", timeout |-> 0,
     category |-> "none", available_uids |-> <<>>,
     run |-> [as_script |-> TRUE, wandb_on |-> TRUE],
     peers |-> [u \in Uids |-> "answer"],
     uid_to_question |-> [u \in Uids |-> 0],
     query_tasks |-> <<>>,
     ran |-> [u \in Uids |-> FALSE],
     results |-> [u \in Uids |-> None],
     requests |-> [u \in Uids |-> <<>>],
     caught |-> [u \in Uids |-> ""],
     query_responses |-> <<>>,
     exc |-> ""]

\* Line 475: the parameters of get_random_texts, defined in the class body
\* without self; line 483: the arguments of the call self.get_random_texts(
\* 'wikitext', 'wikitext-2-v1', 100), the bound instance first.
GetRandomTextsParams == <<"dataset_name", "config_name", "num_samples">>
GetRandomTextsArgs == <<"self", "wikitext", "wikitext-2-v1", "100">>

\* A call with more positional arguments than parameters raises TypeError.
TooManyArguments(params, args) == Len(args) > Len(params)

\* Line 483 draws 100 texts.
NumSamples == 100

\* EmbeddingsValidator.start_query, lines 480-496: the texts are drawn, split
\* evenly and one query_miner coroutine is made per uid; nothing is awaited
\* before the gather of line 498.  A prompt is named by the index of its
\* first text.
EmbeddingsStartQuery(d) ==
    IF TooManyArguments(GetRandomTextsParams, GetRandomTextsArgs)
      THEN [d EXCEPT !.pc = "raised", !.exc = "TypeError"]
      ELSE LET uids == d.available_uids
               num_texts_per_uid == NumSamples \div Len(uids)
           IN  [d EXCEPT
                  !.pc = "gather",
                  !.uid_to_question =
                      [u \in Uids |->
                          IF \E i \in 1 .. Len(uids) : uids[i] = u
                            THEN (CHOOSE i \in 1 .. Len(uids) : uids[i] = u)
                                     * num_texts_per_uid - num_texts_per_uid + 1
                            ELSE 0],
                  !.query_tasks =
                      [i \in 1 .. Len(uids) |->
                          [uid |-> uids[i], syn_type |-> d.query_type]]]

\* The lists get_available_uids can return: uids in the order of the
\* metagraph, each at most once, at least one (line 558).
UidLists ==
    {l \in UNION {[1 .. n -> Uids] : n \in 1 .. NumPeers} :
        \A i \in 1 .. Len(l), j \in 1 .. Len(l) : i < j => l[i] < l[j]}

(* ---- score_responses of the three validators: lines 335-385, 421-455, 501-539 ---- *)

\* A uid that has no key in the scores dictionary score_responses returns.
NoScore == 0 - 1

\* What a peer's entry of query_responses holds: None; for text a string,
\* empty or not; for images a response whose completion is None, has no
\* "url" key or is well formed; for embeddings a response whose embeddings
\* are None or well formed.
ResponseKinds(v) ==
    IF v = "ImageValidator" THEN {"none", "no_completion", "no_url", "good"}
    ELSE IF v = "TextValidator" THEN {"none", "empty", "good"}
    ELSE {"none", "no_embeddings", "good"}

\* "if response" (lines 341, 432, 511): None and the empty string are falsy.
ResponseTruthy(k) == k \notin {"none", "empty"}

\* What goes wrong while one peer is scored: nothing, the oracle gives no
\* answer (call_openai returns None, line 101), the score function returns
\* None, the score function raises, or the image download (line 349) raises.
NoFailure == [uid |-> NumPeers, what |-> "none"]

Failures ==
    {NoFailure} \cup
    [uid : Uids, what : {"oracle_none", "score_none", "score_raise", "download_raise"}]

\* The value the score function gives peer u's well-formed response when
\* compared with the reference for u's own prompt.
ScoreValue(u) == IF u % 2 = 0 THEN Unit ELSE Half

\* Lines 432, 511: "if will_score_all and response".
AskOracleWrong(gate, k) == ResponseTruthy(k)
AskOracle(gate, k) == gate /\ ResponseTruthy(k)

\* asyncio.gather(*tasks) without return_exceptions (lines 369, 445, 529):
\* the exception of the first task that fails is raised to the caller.  A
\* coroutine object that was awaited before fails at once with RuntimeError
\* ("cannot reuse already awaited coroutine"); a score task fails when the
\* score function raises.  "" when every task returns.
RECURSIVE GatherExc(_, _)
GatherExc(tasks, fail) ==
    IF tasks = <<>> THEN ""
    ELSE IF Head(tasks).awaited THEN "RuntimeError"
    ELSE IF Head(tasks).job = "score" /\ fail = [uid |-> Head(tasks).uid, what |-> "score_raise"]
      THEN "score_raise"
    ELSE GatherExc(Tail(tasks), fail)

\* The score function returned None for peer u.
ScoreIsNone(u, fail) == fail = [uid |-> u, what |-> "score_none"]

\* Lines 372-378, 447-449, 531-533: scores[uid] = score if score is not
\* None else 0, for the tasks in order.
RECURSIVE AssignScores(_, _, _)
AssignScores(tasks, fail, acc) ==
    IF tasks = <<>> THEN acc
    ELSE LET u == Head(tasks).uid
         IN  AssignScores(Tail(tasks), fail,
                          [acc EXCEPT ![u] = IF ScoreIsNone(u, fail)
                                               THEN 0 ELSE ScoreValue(u)])

\* What a score_responses call gives: the dictionary it returns (when it
\* returns), the uids an oracle was called for, and the exception it raised.
Outcome(dict, calls, exc) ==
    [scores |-> dict, oracle_calls |-> calls, exc |-> exc, returned |-> exc = ""]

NoScores == [u \in Uids |-> NoScore]

Task(u, job, awaited) == [uid |-> u, job |-> job, awaited |-> awaited]

\* The uids of a list.
UidsOf(uids) == {uids[i] : i \in 1 .. Len(uids)}

\* ImageValidator.score_responses, lines 335-385.
ImageScoreResponses(uids, kind, fail) ==
    LET raises(u) ==
            \/ kind[u] = "no_url"                                      \* line 346
            \/ kind[u] = "good" /\ fail = [uid |-> u, what |-> "download_raise"]   \* line 349
        bad    == {i \in 1 .. Len(uids) : raises(uids[i])}
        first  == CHOOSE i \in bad : \A j \in bad : i <= j
        tasks  == [i \in 1 .. Len(SelectSeq(uids, LAMBDA u : kind[u] = "good")) |->
                      Task(SelectSeq(uids, LAMBDA u : kind[u] = "good")[i], "score", FALSE)]
        zeroed == [u \in Uids |->
                      IF u \in UidsOf(uids) /\ kind[u] \in {"none", "no_completion"}
                        THEN 0 ELSE NoScore]
    IN  IF bad # {}
          THEN Outcome(NoScores, {},
                       IF kind[uids[first]] = "no_url" THEN "KeyError" ELSE "download_raise")
        ELSE IF GatherExc(tasks, fail) # ""
          THEN Outcome(NoScores, {}, GatherExc(tasks, fail))
        ELSE Outcome(AssignScores(tasks, fail, zeroed), {}, "")

\* TextValidator.score_responses (lines 421-455) and
\* EmbeddingsValidator.score_responses (lines 501-539).  The second loop
\* appends the score tasks to score_tasks, which still holds the oracle
\* coroutines the first gather awaited, and the second gather is given all
\* of them.
GatedScoreResponses(v, uids, kind, gate, fail) ==
    LET asked   == SelectSeq(uids, LAMBDA u : AskOracle(gate, kind[u]))
        oracle  == [i \in 1 .. Len(asked) |-> Task(asked[i], "oracle", TRUE)]
        answered(u) == fail # [uid |-> u, what |-> "oracle_none"]
        scored  == IF v = "TextValidator"
                     THEN SelectSeq(asked, LAMBDA u : answered(u))            \* line 440
                     ELSE SelectSeq(asked, LAMBDA u : kind[u] = "good")       \* line 521
        tasks   == oracle \o [i \in 1 .. Len(scored) |-> Task(scored[i], "score", FALSE)]
        zeroed  == [u \in Uids |->
                      IF v = "EmbeddingsValidator" /\ u \in UidsOf(asked)
                            /\ kind[u] = "no_embeddings"
                        THEN 0 ELSE NoScore]                                  \* line 526
    IN  IF GatherExc(tasks, fail) # ""
          THEN Outcome(NoScores, UidsOf(asked), GatherExc(tasks, fail))
          ELSE Outcome(AssignScores(tasks, fail, zeroed), UidsOf(asked), "")

score_responses(v, uids, kind, gate, fail) ==
    IF v = "ImageValidator" THEN ImageScoreResponses(uids, kind, fail)
                            ELSE GatedScoreResponses(v, uids, kind, gate, fail)

\* The round's score vector: the zeros of line 552 with the entries of the
\* returned dictionary written in.
RoundVector(dict) == [u \in Uids |-> IF dict[u] = NoScore THEN 0 ELSE dict[u]]

\* No score_responses call has been made.
NoScoring ==
    [called |-> FALSE, validator |-> "none", uids |-> <<>>,
     kind |-> [u \in Uids |-> "none"], gate |-> FALSE, fail |-> NoFailure,
     out |-> Outcome(NoScores, {}, "")]

(* ----------------- call_openai_embeddings, lines 103-123 -------------- *)

\* A text is a small number; Blank is a text whose strip() is empty (line 107).
Blank == 0

TextIds == 0 .. 2

\* The texts call_openai_embeddings is called with.
TextLists == UNION {[1 .. n -> TextIds] : n \in 0 .. MaxTexts}

\* batch_size = 10 (line 103).
DefaultBatchSize == 10

\* The batch sizes call_openai_embeddings is called with.
BatchSizes == {2, DefaultBatchSize}

\* The vector the oracle returns for a text (item.embedding, line 119).
OracleEmbedding(t) == 7 * t + 1

NumBatches(texts, batch_size) == (Len(texts) + batch_size - 1) \div batch_size

\* Line 104: texts[i:i + batch_size] for i in range(0, len(texts), batch_size).
batches(texts, batch_size) ==
    [k \in 1 .. NumBatches(texts, batch_size) |->
        SubSeq(texts, (k - 1) * batch_size + 1,
               IF k * batch_size < Len(texts) THEN k * batch_size ELSE Len(texts))]

\* Line 107: the texts of the batch that are not blank.
filtered_batch(batch) == SelectSeq(batch, LAMBDA t : t # Blank)

\* Lines 106-114: one task per batch that keeps a text, in batch order.
RECURSIVE TasksFrom(_, _)
TasksFrom(bs, k) ==
    IF k > Len(bs) THEN <<>>
    ELSE IF filtered_batch(bs[k]) # <<>>
         THEN <<filtered_batch(bs[k])>> \o TasksFrom(bs, k + 1)
         ELSE TasksFrom(bs, k + 1)

tasks(texts, batch_size) == TasksFrom(batches(texts, batch_size), 1)

\* Line 119: the embeddings of a response, one per text of the request.
batch_embeddings(batch) == [i \in 1 .. Len(batch) |-> OracleEmbedding(batch[i])]

NoEmbedding ==
    [pc |-> "idle", texts |-> <<>>, batch_size |-> DefaultBatchSize, tasks |-> <<>>,
     pending |-> {}, failing |-> {}, order |-> <<>>, all_embeddings |-> <<>>]

(* --------- discovery: check_uid and get_available_uids, lines 222-241 --------- *)

\* What check_uid returns for a peer that is not available (lines 231, 234).
NoneUid == 0 - 1

\* How the liveness probe of line 225 ends: the peer answers with success,
\* answers without success, or the call raises.
ProbeKinds == {"success", "failure", "raise"}

\* check_uid(dendrite, axon, uid), lines 222-234: the uid when the probe
\* succeeds, None otherwise; the except clause of line 232 catches what the
\* probe raises.
check_uid(uid, probe) == IF probe = "success" THEN uid ELSE NoneUid

\* Line 241: "if uid is not None".
IsNotNoneWrong(x) == x > 0
IsNotNone(x) == x # NoneUid

\* Lines 238-241: the results of the probes, gathered in the order of
\* metagraph.uids, without the None entries.
get_available_uids(results) ==
    SelectSeq([i \in 1 .. NumPeers |-> results[i - 1]], LAMBDA x : IsNotNone(x))

\* No get_available_uids call has been made.  pending are the check_uid
\* coroutines that have not returned, results what the others returned.
NoDiscovery ==
    [pc |-> "idle", round |-> 0, probe |-> [u \in Uids |-> "success"],
     pending |-> {}, results |-> [u \in Uids |-> NoneUid], uids |-> <<>>]

(* ---- SpecSupply: tasks calling update_counters_and_get_new_list ------ *)

\* Queues of the state file: None, or the first 0..MaxQueue items.
InitQueues == {NoneList} \cup {[i \in 1 .. n |-> i] : n \in 0 .. MaxQueue}

Tasks == 1 .. NumTasks

EmptyState == [c \in Categories |-> [k \in Kinds |-> NoneList]]

SetSupplyInit(st) ==
    /\ state = st
    /\ init_state = st
    /\ lock_holder = 0
    /\ lock_waiters = <<>>
    /\ task = [t \in Tasks |-> IdleTask]
    /\ takes = 0
    /\ log = <<>>
    /\ fetches = [key \in Keys |-> 0]
    /\ entered = [n |-> 0, task |-> 0, cat |-> "text", kind |-> "themes"]
    /\ defaults = [key \in Keys |-> [list |-> DefaultList(key[1], key[2]), queued |-> FALSE]]
    /\ last_get_list = NoGetList

InitSupply ==
    /\ NoWeights
    /\ dispatch = NoDispatch /\ scoring = NoScoring /\ discovery = NoDiscovery /\ embedding = NoEmbedding
    /\ LoopStart(TRUE)
    /\ \E qt \in InitQueues, qq \in InitQueues, other \in {NoneList, <<1>>} :
          SetSupplyInit([c \in Categories |->
                           IF c = "text"
                             THEN [k \in Kinds |-> IF k = "themes" THEN qt ELSE qq]
                             ELSE [k \in Kinds |-> other]])

\* The arguments of a take call: the theme only matters for questions.
TakeArgs ==
    {a \in [cat : Categories, kind : Kinds, theme_given : BOOLEAN] :
        a.kind = "themes" => ~a.theme_given}

\* Task t calls update_counters_and_get_new_list with arguments of `args`.
Take(t, args) ==
    /\ task[t].pc = "idle"
    /\ \E a \in args :
          SetSupply(StartTake(World, t, a.cat, a.kind, a.theme_given))
    /\ UNCHANGED <<wvars, last_get_list, lvars, dispatch, scoring, discovery, embedding>>

\* One caller makes its take calls one after the other, as the start_query
\* of one validator does (lines 325, 410); here, the caller of category text.
TakeNext ==
    /\ takes < MaxTakes
    /\ Take(1, {a \in TakeArgs : a.cat = "text"})

\* Each task makes one take call; they start in the order of their numbers
\* and run concurrently.
TakeConcurrently(t) ==
    /\ t = takes + 1
    /\ Take(t, TakeArgs)

\* A task that waited for the lock is given it and runs on.
Resume(t) ==
    /\ task[t].pc = "wait"
    /\ lock_holder = t
    /\ SetSupply(EnterLock(World, t))
    /\ UNCHANGED <<wvars, last_get_list, lvars, dispatch, scoring, discovery, embedding>>

\* The get_list call a task is suspended in returns, the oracle having
\* answered its retries in one of the ways of AnswerScripts.
OracleAnswers(t) ==
    /\ task[t].pc = "fetch"
    /\ LET lk == IF task[t].stage = "theme" THEN "themes" ELSE task[t].kind
       IN  \E r \in {Returned(get_list(defaults[<<task[t].cat, lk>>].list, sc)) :
                         sc \in AnswerScripts} :
              SetSupply(GetListReturn(World, t, r))
    /\ UNCHANGED <<wvars, last_get_list, lvars, dispatch, scoring, discovery, embedding>>

NextSupply == TakeNext \/ OracleAnswers(1)

SpecSupply == InitSupply /\ [][NextSupply]_vars

NextRace == \E t \in Tasks : TakeConcurrently(t) \/ Resume(t) \/ OracleAnswers(t)

\* The concurrent callers start from text queues that are None or full and
\* image queues that are None.
InitRace ==
    /\ NoWeights
    /\ dispatch = NoDispatch /\ scoring = NoScoring /\ discovery = NoDiscovery /\ embedding = NoEmbedding
    /\ LoopStart(TRUE)
    /\ \E qt \in {NoneList, [i \in 1 .. MaxQueue |-> i]},
          qq \in {NoneList, [i \in 1 .. MaxQueue |-> i]} :
          SetSupplyInit([c \in Categories |->
                           IF c = "text"
                             THEN [k \in Kinds |-> IF k = "themes" THEN qt ELSE qq]
                             ELSE [k \in Kinds |-> NoneList]])

SpecRace == InitRace /\ [][NextRace]_vars

(* -------- SpecDispatch: one start_query call of a validator ----------- *)

\* A validator's start_query(available_uids) is called (lines 320-322,
\* 406-408, 480-484); the peers of the list will behave as `ps` says.
StartQuery ==
    /\ dispatch.pc = "idle"
    /\ \E v \in Validators, uids \in UidLists, ps \in [Uids -> PeerKinds],
          run \in Runs :
          /\ \A u \in Uids : (\A i \in 1 .. Len(uids) : uids[i] # u) => ps[u] = "answer"
          /\ LET d == [NoDispatch EXCEPT
                         !.validator = v.name, !.query_type = v.query_type,
                         !.timeout = v.timeout, !.category = v.category,
                         !.available_uids = uids, !.peers = ps, !.run = run]
             IN  dispatch' = IF v.name = "EmbeddingsValidator"
                               THEN EmbeddingsStartQuery(d)
                               ELSE [d EXCEPT !.pc = "loop"]
    /\ UNCHANGED <<wvars, svars, lvars, scoring, discovery, embedding>>

\* Lines 325, 410: the loop of start_query awaits get_question(category),
\* which is update_counters_and_get_new_list(category, "questions")
\* (lines 215-220).
AskQuestion ==
    /\ dispatch.pc = "loop"
    /\ task[1].pc = "idle"
    /\ SetSupply(StartTake(World, 1, dispatch.category, "questions", FALSE))
    /\ dispatch' = [dispatch EXCEPT !.pc = "await"]
    /\ UNCHANGED <<wvars, last_get_list, lvars, scoring, discovery, embedding>>

\* Lines 325-330, 410-416: the await of get_question ends.  When the take
\* call raised (ValueError, line 185), start_query has no handler and the
\* exception leaves it: no coroutine is run and nothing is returned.
\* Otherwise the question is stored for the uid and the query_miner
\* coroutine is made; after the last uid the loop ends and the gather of
\* line 332 / 418 starts.
QuestionReturns ==
    /\ dispatch.pc = "await"
    /\ task[1].pc = "idle"
    /\ LET uid  == dispatch.available_uids[Len(dispatch.query_tasks) + 1]
           take == log[Len(log)]
           d1   == [dispatch EXCEPT
                      !.uid_to_question[uid] = take.ret,
                      !.query_tasks = Append(@, [uid |-> uid,
                                                 syn_type |-> dispatch.query_type])]
       IN  dispatch' = IF take.exc # ""
                         THEN [dispatch EXCEPT !.pc = "raised", !.exc = take.exc]
                         ELSE [d1 EXCEPT
                                 !.pc = IF Len(d1.query_tasks) = Len(d1.available_uids)
                                          THEN "gather" ELSE "loop"]
    /\ UNCHANGED <<wvars, svars, lvars, scoring, discovery, embedding>>

\* asyncio.gather (lines 332, 418, 498) runs the coroutines concurrently:
\* the i-th one runs query_miner to its return.
RunQueryMiner(i) ==
    /\ dispatch.pc = "gather"
    /\ i \in 1 .. Len(dispatch.query_tasks)
    /\ LET t == dispatch.query_tasks[i]
           r == query_miner(t.uid, t.syn_type, dispatch.peers[t.uid], dispatch.run)
       IN  /\ ~dispatch.ran[t.uid]
           /\ dispatch' = [dispatch EXCEPT
                             !.ran[t.uid] = TRUE,
                             !.results[t.uid] = r.responses,
                             !.requests[t.uid] = r.sent,
                             !.caught[t.uid] = r.exc]
    /\ UNCHANGED <<wvars, svars, lvars, scoring, discovery, embedding>>

\* The gather returns the results in the order of the coroutines and
\* start_query returns them (lines 333, 419, 499).
Gather ==
    /\ dispatch.pc = "gather"
    /\ \A i \in 1 .. Len(dispatch.query_tasks) : dispatch.ran[dispatch.query_tasks[i].uid]
    /\ dispatch' = [dispatch EXCEPT
                      !.pc = "done",
                      !.query_responses =
                          [i \in 1 .. Len(dispatch.query_tasks) |->
                              <<dispatch.query_tasks[i].uid,
                                dispatch.results[dispatch.query_tasks[i].uid]>>]]
    /\ UNCHANGED <<wvars, svars, lvars, scoring, discovery, embedding>>

\* The question queues the dispatch starts with.
InitDispatch ==
    /\ NoWeights
    /\ LoopStart(TRUE)
    /\ dispatch = NoDispatch /\ scoring = NoScoring /\ discovery = NoDiscovery /\ embedding = NoEmbedding
    /\ \E q \in {NoneList, <<1, 2>>} :
          SetSupplyInit([c \in Categories |->
                           [k \in Kinds |-> IF k = "questions" THEN q ELSE NoneList]])

NextDispatch ==
    \/ StartQuery
    \/ AskQuestion
    \/ OracleAnswers(1)
    \/ QuestionReturns
    \/ \E i \in 1 .. NumPeers : RunQueryMiner(i)
    \/ Gather

SpecDispatch == InitDispatch /\ [][NextDispatch]_vars

(* ------- SpecScoring: one score_responses call of a validator --------- *)

\* score_responses(query_responses, uid_to_question) is called with the
\* responses of a dispatch over `uids`; will_score_all comes out as `gate`
\* (lines 427-428, 506-507; ImageValidator draws no gate) and `fail` goes
\* wrong while it runs.
CallScoreResponses ==
    /\ ~scoring.called
    /\ \E v \in {w.name : w \in Validators}, uids \in UidLists, fail \in Failures,
          gate \in BOOLEAN :
          \E kind \in [Uids -> ResponseKinds(v)] :
             /\ \A u \in Uids \ UidsOf(uids) : kind[u] = "none"
             /\ v = "ImageValidator" => gate
             /\ scoring' = [called |-> TRUE, validator |-> v, uids |-> uids,
                            kind |-> kind, gate |-> gate, fail |-> fail,
                            out |-> score_responses(v, uids, kind, gate, fail)]
    /\ UNCHANGED <<wvars, svars, lvars, dispatch, discovery, embedding>>

NextScoring == CallScoreResponses

InitScoring ==
    /\ NoWeights
    /\ SetSupplyInit(EmptyState)
    /\ LoopStart(TRUE)
    /\ dispatch = NoDispatch /\ scoring = NoScoring /\ discovery = NoDiscovery /\ embedding = NoEmbedding

SpecScoring == InitScoring /\ [][NextScoring]_vars

(* ------- SpecDiscovery: the get_available_uids call of each round ----- *)

\* Line 556: get_available_uids is called; line 238 makes one check_uid
\* coroutine per uid of the metagraph and line 239 gathers them.  The probes
\* will end as `probe` says.
StartDiscovery ==
    /\ discovery.pc \in {"idle", "done"}
    /\ discovery.round < MaxRounds
    /\ \E probe \in [Uids -> ProbeKinds] :
          discovery' = [NoDiscovery EXCEPT
                          !.pc = "probing", !.round = discovery.round + 1,
                          !.probe = probe, !.pending = Uids]
    /\ UNCHANGED <<wvars, svars, lvars, dispatch, scoring, embedding>>

\* The check_uid coroutine of uid u returns; the coroutines run
\* concurrently and return in any order.
CheckUid(u) ==
    /\ discovery.pc = "probing"
    /\ u \in discovery.pending
    /\ discovery' = [discovery EXCEPT
                       !.pending = @ \ {u},
                       !.results[u] = check_uid(u, discovery.probe[u])]
    /\ UNCHANGED <<wvars, svars, lvars, dispatch, scoring, embedding>>

\* Lines 239-241: the gather is complete and the list is returned.
ReturnUids ==
    /\ discovery.pc = "probing"
    /\ discovery.pending = {}
    /\ discovery' = [discovery EXCEPT
                       !.pc = "done",
                       !.uids = get_available_uids(discovery.results)]
    /\ UNCHANGED <<wvars, svars, lvars, dispatch, scoring, embedding>>

NextDiscovery == StartDiscovery \/ (\E u \in Uids : CheckUid(u)) \/ ReturnUids

InitDiscovery ==
    /\ NoWeights
    /\ SetSupplyInit(EmptyState)
    /\ LoopStart(TRUE)
    /\ dispatch = NoDispatch /\ scoring = NoScoring /\ discovery = NoDiscovery /\ embedding = NoEmbedding

SpecDiscovery == InitDiscovery /\ [][NextDiscovery]_vars

(* ------------- SpecGetList: one get_list call at a time --------------- *)

\* get_list is called for a valid list type and the oracle follows a script.
CallGetList ==
    /\ last_get_list = NoGetList
    /\ \E c \in Categories, k \in Kinds, sc \in Scripts :
          last_get_list' = [cat |-> c, kind |-> k, script |-> sc,
                            ret |-> get_list(DefaultList(c, k), sc)]
    /\ UNCHANGED <<wvars, state, lock_holder, lock_waiters, task, takes, log,
                   fetches, entered, init_state, defaults, lvars, dispatch, scoring, discovery, embedding>>

NextGetList == CallGetList

InitGetList ==
    NoWeights /\ SetSupplyInit(EmptyState) /\ LoopStart(TRUE) /\ dispatch = NoDispatch /\ scoring = NoScoring /\ discovery = NoDiscovery /\ embedding = NoEmbedding

SpecGetList == InitGetList /\ [][NextGetList]_vars

(* ---------------- SpecWeights: a sequence of set_weights calls -------- *)

InitWeights ==
    NoWeights /\ SetSupplyInit(EmptyState) /\ LoopStart(TRUE) /\ dispatch = NoDispatch /\ scoring = NoScoring /\ discovery = NoDiscovery /\ embedding = NoEmbedding

CallSetWeights ==
    /\ Len(sw_hist) < MaxCommits
    /\ \E v \in ScoreVectors, ok \in BOOLEAN : SetWeights(v, ok)
    /\ UNCHANGED <<svars, lvars, dispatch, scoring, discovery, embedding>>

NextWeights == CallSetWeights

SpecWeights == InitWeights /\ [][NextWeights]_vars

(* ------------- Spec: the loop of query_synapse ----------------------- *)

Init ==
    /\ NoWeights
    /\ SetSupplyInit(EmptyState)
    /\ dispatch = NoDispatch /\ scoring = NoScoring /\ discovery = NoDiscovery /\ embedding = NoEmbedding
    /\ \E bound \in BOOLEAN : LoopStart(bound)

Next == Discover \/ Score \/ MergeAndCommit

Spec == Init /\ [][Next]_vars

(* ------- SpecRegistry: the loop while the registry changes ------------ *)

NextRegistry == Discover \/ Score \/ MergeAndCommit \/ RegistryChanges

SpecRegistry == Init /\ [][NextRegistry]_vars

(* ------- SpecEmbeddings: one call_openai_embeddings call -------------- *)

\* Lines 104-114: the call creates its tasks; those of `failing` will raise.
CallOpenaiEmbeddings ==
    /\ embedding.pc = "idle"
    /\ \E texts \in TextLists, batch_size \in BatchSizes :
          \E failing \in SUBSET (1 .. Len(tasks(texts, batch_size))) :
             embedding' = [pc |-> "as_completed", texts |-> texts,
                           batch_size |-> batch_size,
                           tasks |-> tasks(texts, batch_size),
                           pending |-> 1 .. Len(tasks(texts, batch_size)),
                           failing |-> failing, order |-> <<>>,
                           all_embeddings |-> <<>>]
    /\ UNCHANGED <<wvars, svars, lvars, dispatch, scoring, discovery>>

\* Lines 116-122: asyncio.as_completed hands over the task that finishes
\* next, whichever it is; its embeddings are appended (line 120), or the
\* exception it raised is logged (lines 121-122).
BatchCompletes(i) ==
    /\ embedding.pc = "as_completed"
    /\ i \in embedding.pending
    /\ embedding' = [embedding EXCEPT
          !.pending = @ \ {i},
          !.order = Append(@, i),
          !.all_embeddings =
              IF i \in embedding.failing THEN @
              ELSE @ \o batch_embeddings(embedding.tasks[i])]
    /\ UNCHANGED <<wvars, svars, lvars, dispatch, scoring, discovery>>

\* Line 123: return all_embeddings.
ReturnEmbeddings ==
    /\ embedding.pc = "as_completed"
    /\ embedding.pending = {}
    /\ embedding' = [embedding EXCEPT !.pc = "returned"]
    /\ UNCHANGED <<wvars, svars, lvars, dispatch, scoring, discovery>>

NextEmbeddings ==
    \/ CallOpenaiEmbeddings
    \/ \E i \in embedding.pending : BatchCompletes(i)
    \/ ReturnEmbeddings

InitEmbeddings ==
    /\ NoWeights
    /\ SetSupplyInit(EmptyState)
    /\ LoopStart(TRUE)
    /\ dispatch = NoDispatch /\ scoring = NoScoring /\ discovery = NoDiscovery
    /\ embedding = NoEmbedding

SpecEmbeddings == InitEmbeddings /\ [][NextEmbeddings]_vars

(* ------------------------------ C1 ------------------------------------ *)

\* The recurrence of the claim: m1 = v1, mk = 0.3*vk + 0.7*m(k-1).
RECURSIVE Ema(_)
Ema(h) ==
    IF Len(h) = 1 THEN h[1]
    ELSE LET prev == Ema(SubSeq(h, 1, Len(h) - 1))
             v    == h[Len(h)]
         IN  [u \in DOMAIN v |-> (3 * v[u] + 7 * prev[u]) \div 10]

\* C1: after the n-th set_weights call the moving average, and the vector
\* submitted to the ledger when the write succeeds, equal the recurrence
\* m1 = v1, mk = 0.3*vk + 0.7*m(k-1) over the vectors v1..vn of the calls.
C1_MovingAverageLaw ==
    /\ sw_hist # <<>> => moving_average_scores = Ema(sw_hist)
    /\ sw_status = "ok" => ledger = Ema(sw_hist)

\* The spec's example on uids 0, 1, 2 (A, B, C): the third call commits
\* {A: 0.49, B: 0.51, C: 0.5}.
ExampleV1 == [u \in Uids |-> IF u % 3 = 0 THEN Unit ELSE IF u % 3 = 1 THEN 0 ELSE Half]
ExampleV2 == [u \in Uids |-> IF u % 3 = 0 THEN 0 ELSE IF u % 3 = 1 THEN Unit ELSE Half]

C1_Witness ==
    /\ sw_hist = <<ExampleV1, ExampleV2, ExampleV2>>
    /\ sw_status = "ok"
    /\ ledger[0] = (49 * Unit) \div 100
    /\ ledger[1] = (51 * Unit) \div 100
    /\ ledger[2] = Half

(* ------------------------------ C2 ------------------------------------ *)

\* C2 as stated: an iteration of query_synapse with a non-empty reachable
\* set in which no peer, oracle or ledger call fails goes through dispatch,
\* collection, scoring and merge, adds the round's score vector into
\* total_scores and increments steps_passed before the next one starts.
C2_Original ==
    (pc = "top" /\ last_round.outcome \in {"completed", "abandoned"}
                /\ ~last_round.failed_call)
        => /\ last_round.outcome = "completed"
           /\ last_round.merged
           /\ last_round.counted

(* ------------------------------ C3 ------------------------------------ *)

\* C3 as stated: set_weights is called once every 5 completed rounds: the
\* first call closes a window of 5 merged rounds, and so does every later one.
C3_Original == \A i \in 1 .. Len(commit_log) : commit_log[i].n = 5

(* ------------------------------ C4 ------------------------------------ *)

\* C4 as stated: the vector handed to set_weights at a commit is the sum of
\* the round vectors merged since the previous commit, divided by their
\* number; after the commit total_scores is the zero vector.
C4_Original ==
    /\ Len(sw_hist) = Len(commit_log)
    /\ \A i \in 1 .. Len(commit_log) :
          \A u \in Uids : sw_hist[i][u] * commit_log[i].n = commit_log[i].sum[u]
    /\ (pc = "top" /\ last_round.outcome = "completed" /\ window.n = 0
           /\ commit_log # <<>>)
          => total_scores = Zeros(NumPeers)

(* ------------------------------ C5 ------------------------------------ *)

OtherKeys(c, k) == {key \in Keys : key # <<c, k>>}

\* C5: a take call that passes the lock while its queue state[c][k] is not
\* empty returns the queue's last element at once, removes exactly that
\* element, leaves every other queue as it was and makes no get_list call
\* (so no oracle call).
C5_TakeFromNonEmptyQueue ==
    [][ (entered'.n = entered.n + 1 /\ Truthy(state[entered'.cat][entered'.kind]))
        => LET c == entered'.cat
               k == entered'.kind
               q == state[c][k]
           IN  /\ Len(log') = Len(log) + 1
               /\ SubSeq(log', 1, Len(log)) = log
               /\ log'[Len(log')].cat = c
               /\ log'[Len(log')].kind = k
               /\ log'[Len(log')].ret = q[Len(q)]
               /\ ~log'[Len(log')].refilled
               /\ QueueItems(state'[c][k]) = SubSeq(q, 1, Len(q) - 1)
               /\ \A key \in OtherKeys(c, k) : state'[key[1]][key[2]] = state[key[1]][key[2]]
               /\ fetches' = fetches
               /\ task'[entered'.task].pc = "idle" ]_vars

\* The spec's example: on the queue ["q1", "q2"] (items 1, 2) two take calls
\* return "q2" then "q1", with no get_list call.
C5_Witness ==
    /\ init_state["text"]["questions"] = <<1, 2>>
    /\ Len(log) = 2
    /\ \A i \in 1 .. 2 : log[i].cat = "text" /\ log[i].kind = "questions" /\ ~log[i].refilled
    /\ log[1].ret = 2
    /\ log[2].ret = 1
    /\ \A key \in Keys : fetches[key] = 0
    /\ ~Truthy(state["text"]["questions"])

(* ------------------------------ C6 ------------------------------------ *)

\* Every take call made so far was for the queue (c, k).
OnlyKey(c, k) ==
    /\ \A i \in 1 .. Len(log) : log[i].cat = c /\ log[i].kind = k
    /\ \A t \in Tasks : task[t].pc # "idle" => task[t].cat = c /\ task[t].kind = k

Range(f) == {f[i] : i \in DOMAIN f}

\* C6: when the take calls of a run are made one after the other for one
\* queue that held k >= 1 items at the start, the first k calls make no
\* get_list call for it and leave it empty, and the (k+1)-th call makes
\* exactly one get_list call for it and returns an item of the fetched list.
C6_QueueRotation ==
    \A key \in Keys :
        LET c  == key[1]
            k  == key[2]
            q0 == QueueItems(init_state[c][k])
            k0 == Len(q0)
            n  == Len(log)
        IN  (OnlyKey(c, k) /\ k0 >= 1) =>
              /\ \A i \in 1 .. n : i <= k0 => ~log[i].refilled /\ log[i].ret = q0[k0 - i + 1]
              /\ (n <= k0 /\ task[1].pc = "idle") =>
                    /\ fetches[key] = 0
                    /\ QueueItems(state[c][k]) = SubSeq(q0, 1, k0 - n)
              /\ (n = k0 /\ task[1].pc = "fetch" /\ task[1].stage = "main") => fetches[key] = 1
              /\ n >= k0 + 1 =>
                    /\ log[k0 + 1].refilled
                    /\ log[k0 + 1].ret \in Range(log[k0 + 1].batch)
              /\ (n = k0 + 1 /\ task[1].pc = "idle") => fetches[key] = 1

\* A queue of two items, three take calls: the third one refilled.
C6_Witness ==
    /\ OnlyKey("text", "questions")
    /\ init_state["text"]["questions"] = <<1, 2>>
    /\ Len(log) = 3
    /\ log[3].refilled
    /\ fetches[<<"text", "questions">>] = 1

(* ------------------------------ C7 ------------------------------------ *)

\* The first two take calls to return were both for the queue (c, k), which
\* was empty at the start, and the second started while the first was under
\* way; no third call has passed the lock.
TwoConcurrentTakes(c, k) ==
    /\ ~Truthy(init_state[c][k])
    /\ Len(log) = 2
    /\ \A i \in 1 .. 2 : log[i].cat = c /\ log[i].kind = k
    /\ log[2].overlap
    /\ entered.n = 2

\* C7 as stated: two concurrent take calls on an empty queue make exactly one
\* get_list call for it, and return two distinct items of the fetched list.
C7_Original ==
    \A key \in Keys :
        TwoConcurrentTakes(key[1], key[2]) =>
            /\ fetches[key] = 1
            /\ log[1].ret # log[2].ret
            /\ {log[1].ret, log[2].ret} \subseteq Range(log[1].batch)

\* C7, amended: the first call to pass the lock fetches a list; when that
\* list holds at least two items, exactly one get_list call is made for the
\* queue and the two calls return the last and the last but one entry of the
\* list; when it holds one item, the second call fetches a second list.
C7_OneRefillForTwo ==
    \A key \in Keys :
        TwoConcurrentTakes(key[1], key[2]) =>
            LET b == log[1].batch
            IN  /\ log[1].refilled
                /\ log[1].ret = b[Len(b)]
                /\ Len(b) >= 2 =>
                      /\ fetches[key] = 1
                      /\ ~log[2].refilled
                      /\ log[2].ret = b[Len(b) - 1]
                /\ Len(b) = 1 =>
                      /\ fetches[key] = 2
                      /\ log[2].refilled

C7_Witness ==
    /\ TwoConcurrentTakes("text", "questions")
    /\ Len(log[1].batch) >= 2
    /\ fetches[<<"text", "questions">>] = 1
    /\ ~log[2].refilled

(* ------------------------------ C8 ------------------------------------ *)

\* What a retry's call_openai returns under a script row: the answer of the
\* first client call that does not raise, None when both raise.
AnswerOf(row) ==
    IF row[1].kind # "raise" THEN row[1]
    ELSE IF row[2].kind # "raise" THEN row[2]
    ELSE NoAnswer

\* The list a retry extracts: the answer's list, nothing for any other answer.
ExtractedOf(row) == IF AnswerOf(row).kind = "list" THEN AnswerOf(row).list ELSE <<>>

\* C8: get_list makes at most 3 attempts (call_openai calls); it returns the
\* list of the first attempt that extracts a non-empty list, and the default
\* list of its list type when no attempt does.  It always returns a list:
\* client errors and extraction errors end the attempt, not the call.
C8_GetListRetries ==
    last_get_list # NoGetList =>
        LET sc   == last_get_list.script
            r    == last_get_list.ret
            good == {i \in 1 .. 3 : ExtractedOf(sc[i]) # <<>>}
        IN  /\ r.attempts <= 3
            /\ r.calls <= 2 * r.attempts
            /\ r.result # <<>>
            /\ good # {} =>
                  LET first == CHOOSE i \in good : \A j \in good : i <= j
                  IN  /\ r.result = ExtractedOf(sc[first])
                      /\ r.attempts = first
                      /\ ~r.default
            /\ good = {} =>
                  /\ r.result = DefaultList(last_get_list.cat, last_get_list.kind)
                  /\ r.attempts = 3
                  /\ r.default

\* The oracle fails twice (an exception from both client calls, then an
\* answer without a list) and the third attempt yields a list.
C8_Witness ==
    /\ last_get_list # NoGetList
    /\ last_get_list.script[1][1].kind = "raise"
    /\ last_get_list.script[1][2].kind = "raise"
    /\ last_get_list.script[2][1].kind = "junk"
    /\ last_get_list.script[3][1].kind = "list"
    /\ last_get_list.ret.result = last_get_list.script[3][1].list
    /\ last_get_list.ret.attempts = 3

\* All three attempts fail and the default list is returned.
C8_WitnessDefault ==
    /\ last_get_list # NoGetList
    /\ \A i \in 1 .. 3 : last_get_list.script[i][1].kind \in {"none", "junk", "bad"}
    /\ last_get_list.ret.default

(* ------------------------------ C9 ------------------------------------ *)

\* The uids of the dispatch whose peer does not answer.
FailingPeers ==
    {u \in Uids : (\E i \in 1 .. Len(dispatch.available_uids) :
                      dispatch.available_uids[i] = u)
                  /\ dispatch.peers[u] # "answer"}

\* C9 as stated: a start_query over N reachable peers of which exactly one
\* times out or errors returns N entries, one per peer in order: (uid, None)
\* for the failing peer and (uid, the peer's own response) for each other.
C9_Original ==
    (dispatch.pc \in {"done", "raised"} /\ Cardinality(FailingPeers) = 1)
        => /\ dispatch.pc = "done"
           /\ Len(dispatch.query_responses) = Len(dispatch.available_uids)
           /\ \A i \in 1 .. Len(dispatch.available_uids) :
                 LET u == dispatch.available_uids[i]
                 IN  dispatch.query_responses[i] =
                         <<u, IF u \in FailingPeers THEN None ELSE PeerResponse(u)>>

(* ------------------------------ C10 ----------------------------------- *)

\* C10 as stated: the start_query of ImageValidator and of
\* EmbeddingsValidator sends each peer exactly one request, with the
\* validator's timeout, and returns (uid, response) for a peer that answers.
C10_Original ==
    (dispatch.validator \in {"ImageValidator", "EmbeddingsValidator"}
         /\ dispatch.pc \in {"done", "raised"})
        => /\ dispatch.pc = "done"
           /\ \A i \in 1 .. Len(dispatch.available_uids) :
                 LET u == dispatch.available_uids[i]
                 IN  /\ Len(dispatch.requests[u]) = 1
                     /\ dispatch.requests[u][1].timeout = dispatch.timeout
                     /\ dispatch.peers[u] = "answer"
                           => dispatch.query_responses[i] = <<u, PeerResponse(u)>>

(* ------------------------------ C11 ----------------------------------- *)

\* C11 as stated: for the text category the response query_miner returns
\* for an answering peer is the concatenation, in arrival order, of the
\* chunks of the first stream only, none dropped, repeated or reordered.
C11_Original ==
    (dispatch.validator = "TextValidator" /\ dispatch.pc = "done")
        => \A i \in 1 .. Len(dispatch.available_uids) :
              LET u == dispatch.available_uids[i]
              IN  dispatch.peers[u] = "answer"
                     => dispatch.query_responses[i] = <<u, <<u + 1, u + 1, u + 2>>>>

(* ------------------------------ C12 ----------------------------------- *)

\* C12: when will_score_all is false, the score_responses of TextValidator
\* and of EmbeddingsValidator returns without calling an oracle, whatever
\* the peers returned, and every peer has score 0 in the round's vector.
C12_ClosedGate ==
    (scoring.called /\ scoring.validator \in {"TextValidator", "EmbeddingsValidator"}
                    /\ ~scoring.gate)
        => /\ scoring.out.returned
           /\ scoring.out.oracle_calls = {}
           /\ \A u \in Uids : RoundVector(scoring.out.scores)[u] = 0

\* The gate is closed on a round in which every peer returned a well-formed
\* response.
C12_Witness ==
    /\ scoring.called
    /\ scoring.validator \in {"TextValidator", "EmbeddingsValidator"}
    /\ ~scoring.gate
    /\ Len(scoring.uids) = NumPeers
    /\ \A u \in Uids : scoring.kind[u] = "good"
    /\ scoring.out.returned

(* ------------------------------ C13 ----------------------------------- *)

\* The responses that are None or malformed: no completion, no "url" in the
\* completion, no embeddings.
NoneOrMalformed == {"none", "no_completion", "no_url", "no_embeddings"}

\* C13 as stated: in the three score_responses a peer whose result is None
\* and a peer whose response is malformed both end with score 0, and
\* score_responses does not raise.  Stated for rounds in which every peer is
\* of one of these two sorts and nothing else goes wrong.
C13_Original ==
    (scoring.called /\ scoring.fail = NoFailure
        /\ \A u \in UidsOf(scoring.uids) : scoring.kind[u] \in NoneOrMalformed)
        => /\ scoring.out.returned
           /\ \A u \in UidsOf(scoring.uids) : RoundVector(scoring.out.scores)[u] = 0

(* ------------------------------ C14 ----------------------------------- *)

\* The same score_responses call with nothing going wrong.
WithoutFailure ==
    score_responses(scoring.validator, scoring.uids, scoring.kind, scoring.gate,
                    NoFailure)

\* C14 as stated: when scoring one peer raises (the image download or the
\* score function), every other peer of the round still gets the score it
\* gets when nothing raises.
C14_Original ==
    (scoring.called /\ scoring.fail.what \in {"score_raise", "download_raise"}
        /\ scoring.fail.uid \in UidsOf(scoring.uids)
        /\ WithoutFailure.returned)
        => \A u \in UidsOf(scoring.uids) \ {scoring.fail.uid} :
              scoring.out.scores[u] = WithoutFailure.scores[u]

(* ------------------------------ C15 ----------------------------------- *)

\* The uids whose probe succeeded, in the order of the metagraph.
RECURSIVE Successful(_, _)
Successful(probe, u) ==
    IF u >= NumPeers THEN <<>>
    ELSE (IF probe[u] = "success" THEN <<u>> ELSE <<>>) \o Successful(probe, u + 1)

\* C15: the list get_available_uids returns holds exactly the uids whose
\* probe succeeded, uid 0 included, each once; a peer whose probe fails or
\* raises is left out, and its exception does not stop the other probes.
C15_ReachableSet ==
    /\ discovery.pc = "done"
          => /\ discovery.uids = Successful(discovery.probe, 0)
             /\ \A i \in 1 .. Len(discovery.uids), j \in 1 .. Len(discovery.uids) :
                   i # j => discovery.uids[i] # discovery.uids[j]
    /\ discovery.pc = "probing"
          => \A u \in Uids \ discovery.pending :
                discovery.results[u] = IF discovery.probe[u] = "success" THEN u ELSE NoneUid

\* Peer 0 answers its probe, the probe of peer 1 raises, and the list
\* returned holds uid 0 and not uid 1.
C15_Witness ==
    /\ discovery.pc = "done"
    /\ discovery.probe[0] = "success"
    /\ discovery.probe[1] = "raise"
    /\ discovery.probe[NumPeers - 1] = "failure"
    /\ discovery.uids = <<0>>

(* ------------------------------ C16 ----------------------------------- *)

\* C16: an iteration of query_synapse whose reachable set is empty backs off
\* (sleep 5) and restarts: steps_passed, total_scores and
\* moving_average_scores keep their values, nothing is dispatched, scored or
\* merged and set_weights is not called.
C16_EmptySetBacksOff ==
    [][(pc = "top" /\ rounds' = rounds + 1 /\ available_uids' = {})
          => /\ pc' = "top"
             /\ steps_passed' = steps_passed
             /\ total_scores' = total_scores
             /\ moving_average_scores' = moving_average_scores
             /\ sw_hist' = sw_hist
             /\ ledger' = ledger
             /\ commit_log' = commit_log
             /\ window' = window
             /\ last_round' = [NoRound EXCEPT !.outcome = "backoff", !.pause = 5]]_vars

\* A back-off after rounds were merged and a commit was made.
C16_Witness ==
    /\ pc = "top"
    /\ last_round.outcome = "backoff"
    /\ available_uids = {}
    /\ commit_log # <<>>
    /\ steps_passed > 1
    /\ total_scores # Zeros(NumPeers)

(* ------------------------------ C17 ----------------------------------- *)

\* C17: an exception raised in an iteration of query_synapse is caught and
\* logged and the loop starts another iteration: the exception never leaves
\* the loop and the loop can always take its next step, after any number of
\* failing iterations in a row.
C17_LoopGoesOn ==
    /\ pc \in {"top", "score", "merge"}
    /\ last_round.outcome = "abandoned" => last_round.exc \in RoundExceptions
    /\ (pc = "top" /\ rounds < MaxRounds) => ENABLED Discover
    /\ pc = "score" => ENABLED Score
    /\ pc = "merge" => ENABLED MergeAndCommit

\* Every iteration up to the bound failed, and the loop is at its top again.
C17_Witness ==
    /\ pc = "top"
    /\ rounds = MaxRounds
    /\ last_round.outcome = "abandoned"
    /\ last_round.only_failures

(* ------------------------------ C18 ----------------------------------- *)

\* C18 as stated: an iteration that ends with an exception, the failure of
\* the ledger write inside set_weights included, is all-or-nothing: after it
\* total_scores, steps_passed and moving_average_scores are all as they were
\* when the iteration started, or all as the completed round and commit
\* leave them.  (Nothing changes them between the start of the iteration and
\* the merge.)
C18_Original ==
    [][(pc # "top" /\ pc' = "top" /\ last_round'.outcome = "abandoned")
          => \/ /\ total_scores' = total_scores
                /\ steps_passed' = steps_passed
                /\ moving_average_scores' = moving_average_scores
             \/ /\ total_scores' = Zeros(NumPeers)
                /\ steps_passed' = StepsAfterCommit
                /\ moving_average_scores' # moving_average_scores
                /\ Len(sw_hist') = Len(sw_hist) + 1]_vars

(* ------------------------------ C19 ----------------------------------- *)

\* C19 as stated: after every iteration that dispatched, an abandoned one
\* included, the pacing delay sleep(100) is taken before the next one starts;
\* only the iteration with an empty reachable set takes the shorter back-off.
C19_Original ==
    /\ last_round.outcome \in {"completed", "abandoned"} => last_round.pause = 100
    /\ last_round.outcome = "backoff" => last_round.pause = 5

(* ------------------------------ C20 ----------------------------------- *)

\* C20 as stated: when will_score_all is true and nothing fails, the
\* score_responses of TextValidator and of EmbeddingsValidator returns, and
\* every peer with a well-formed, non-empty response gets the value the
\* score function gives its own response against the reference for its own
\* prompt.
C20_Original ==
    (scoring.called /\ scoring.validator \in {"TextValidator", "EmbeddingsValidator"}
        /\ scoring.gate /\ scoring.fail = NoFailure)
        => /\ scoring.out.returned
           /\ \A u \in UidsOf(scoring.uids) :
                 scoring.kind[u] = "good" => scoring.out.scores[u] = ScoreValue(u)

(* ------------------------------ C21 ----------------------------------- *)

\* The embedding of every text, position for position.
EmbeddingsOf(texts) == [i \in 1 .. Len(texts) |-> OracleEmbedding(texts[i])]

\* C21: the list call_openai_embeddings returns is aligned with its input:
\* it has one vector per text and its i-th vector is the oracle's embedding
\* of the i-th text, whatever the order in which the batches complete,
\* whichever texts are blank and whichever batches fail.
C21_Original ==
    embedding.pc = "returned" =>
        embedding.all_embeddings = EmbeddingsOf(embedding.texts)

(* ------------------------------ C22 ----------------------------------- *)

\* Task tk is inside a take call of kind questions made without a theme.
ThemelessTake(tk) == tk.pc # "idle" /\ tk.kind = "questions" /\ ~tk.theme_given

\* What each step of a take call of kind questions without a theme does
\* when it finds its question queue empty.
C22_Steps ==
    \A t \in Tasks :
       LET c      == task'[t].cat
           themes == state[c]["themes"]
           qkey   == <<c, "questions">>
           tkey   == <<c, "themes">>
       IN  \* the call passes the lock: it pops the last theme and fetches the
           \* questions, or fetches the themes first when there is no theme
           /\ ( /\ entered'.n = entered.n + 1
                /\ entered'.task = t
                /\ ThemelessTake(task'[t])
                /\ ~Truthy(state[c]["questions"]) )
              => /\ lock_holder' = t
                 /\ task'[t].pc = "fetch"
                 /\ state'[c]["questions"] = state[c]["questions"]
                 /\ IF Truthy(themes)
                      THEN /\ state'[c]["themes"] = SubSeq(themes, 1, Len(themes) - 1)
                           /\ task'[t].theme = themes[Len(themes)]
                           /\ task'[t].stage = "main"
                           /\ fetches' = [fetches EXCEPT ![qkey] = @ + 1]
                      ELSE /\ state'[c]["themes"] = themes
                           /\ task'[t].stage = "theme"
                           /\ fetches' = [fetches EXCEPT ![tkey] = @ + 1]
           \* the themes arrive: the lock is still held, was not asked for
           \* again, the last theme is popped and the questions are fetched
           /\ ( /\ task[t].pc = "fetch"
                /\ task[t].stage = "theme"
                /\ task'[t] # task[t] )
              => /\ ThemelessTake(task'[t])
                 /\ lock_holder = t
                 /\ lock_holder' = t
                 /\ task'[t].pc = "fetch"
                 /\ task'[t].stage = "main"
                 /\ task'[t].theme # 0
                 /\ state'[c]["questions"] = state[c]["questions"]
                 /\ fetches' = [fetches EXCEPT ![qkey] = @ + 1]
           \* the questions arrive: the last one is returned, the others are
           \* the queue, no further theme is popped and the lock is released
           /\ ( /\ ThemelessTake(task[t])
                /\ task[t].pc = "fetch"
                /\ task[t].stage = "main"
                /\ task'[t] # task[t] )
              => /\ task'[t].pc = "idle"
                 /\ lock_holder = t
                 /\ lock_holder' # t
                 /\ Len(log') = Len(log) + 1
                 /\ LET e == log'[Len(log')]
                    IN  /\ e.cat = task[t].cat
                        /\ e.kind = "questions"
                        /\ e.refilled
                        /\ e.exc = ""
                        /\ e.batch # <<>> => e.ret = e.batch[Len(e.batch)]
                        /\ QueueItems(state'[task[t].cat]["questions"])
                              = SubSeq(e.batch, 1, Len(e.batch) - 1)
                 /\ state'[task[t].cat]["themes"] = state[task[t].cat]["themes"]
                 /\ fetches' = fetches

\* A take call of kind questions without a theme that is under way and is
\* not waiting to be let in holds the lock and is suspended in a get_list
\* call whose return it can take: it is never waiting for the lock it holds.
C22_NeverBlocked ==
    \A t \in Tasks :
        (ThemelessTake(task[t]) /\ task[t].pc # "wait")
        => /\ task[t].pc = "fetch"
           /\ lock_holder = t
           /\ ENABLED OracleAnswers(t)

\* C22: a take call of kind questions made without a theme on an empty
\* question queue pops exactly one theme of its category (after fetching the
\* themes when there is none), fetches the questions for that theme while it
\* still holds the lock it took once, is never blocked on that lock, and
\* returns when the questions arrive: the question queue is then the fetched
\* list without the returned item.
C22_Original ==
    /\ [][C22_Steps]_vars
    /\ []C22_NeverBlocked

(* ------------------------------ C23 ----------------------------------- *)

\* C23: when the number of registry entries changes between rounds the loop
\* keeps working: a round whose score vector came back adds it to
\* total_scores (so that commits go on), and a peer that has an entry in
\* moving_average_scores still has one after a commit.
C23_Original ==
    [][ /\ pc = "merge" => last_round'.merged
        /\ (moving_average_scores # None /\ moving_average_scores' # None)
              => DOMAIN moving_average_scores \subseteq DOMAIN moving_average_scores' ]_vars

(* ------------------------------ C24 ----------------------------------- *)

\* Every entry of the vector lies between the scores 0.0 and 1.0.
InUnitRange(v) == \A u \in DOMAIN v : 0 <= v[u] /\ v[u] <= Unit

\* C24: with every round's scores in [0,1], every averaged vector handed to
\* set_weights, the moving average and the weights written to the ledger
\* have all their entries in [0,1], whatever rounds and ledger writes failed.
C24_Original ==
    /\ \A i \in 1 .. Len(sw_hist) : InUnitRange(sw_hist[i])
    /\ moving_average_scores # None => InUnitRange(moving_average_scores)
    /\ ledger # None => InUnitRange(ledger)

====
